---- MODULE Spec2Model ----
(***************************************************************************)
(* Model of app.py: the document reader (read_pdf, read_word, read_txt,    *)
(* parse_document), the model gateway (call_model_api), the five task      *)
(* functions and the Gradio event bindings of main().                      *)
(*                                                                         *)
(* A Python str is a sequence of Unicode code points, so len(), slicing,   *)
(* str.endswith and concatenation are the sequence operations.  The string *)
(* literals of the source are written out as code points; the comment      *)
(* above each one shows its text.                                          *)
(***************************************************************************)
EXTENDS Integers, Sequences, FiniteSets, TLC

VARIABLES
    ZHIPU_API_KEY,   \* process-wide configuration (app.py line 10)
    ZHIPU_MODEL,     \* process-wide configuration (app.py line 11)
    doc_content,     \* the read-only "document text" Textbox (line 235)
    result_output,   \* the "result" Markdown display (line 236)
    loaded,          \* history: outcome of the most recent load click
    last             \* the request being answered, with everything it did

vars == <<ZHIPU_API_KEY, ZHIPU_MODEL, doc_content, result_output, loaded, last>>

----------------------------------------------------------------------------
(* String literals of the source                                           *)

\* "PDF读取失败: "  (9 characters)
PDF_FAIL_PREFIX == <<80, 68, 70, 35835, 21462, 22833, 36133, 58, 32>>
\* "Word读取失败: "  (10 characters)
WORD_FAIL_PREFIX == <<87, 111, 114, 100, 35835, 21462, 22833, 36133, 58, 32>>
\* "TXT读取失败: "  (9 characters)
TXT_FAIL_PREFIX == <<84, 88, 84, 35835, 21462, 22833, 36133, 58, 32>>
\* "\n"  (1 characters)
NEWLINE == <<10>>
\* "文件路径为空"  (6 characters)
MSG_EMPTY_PATH == <<25991, 20214, 36335, 24452, 20026, 31354>>
\* ".pdf"  (4 characters)
EXT_PDF == <<46, 112, 100, 102>>
\* ".docx"  (5 characters)
EXT_DOCX == <<46, 100, 111, 99, 120>>
\* ".txt"  (4 characters)
EXT_TXT == <<46, 116, 120, 116>>
\* "不支持的文件格式，仅支持PDF(.pdf)、Word(.docx)、TXT(.txt)"  (43 characters)
MSG_UNSUPPORTED_FORMAT == <<19981, 25903, 25345, 30340, 25991, 20214, 26684, 24335, 65292, 20165, 25903, 25345, 80, 68, 70, 40, 46, 112, 100, 102, 41, 12289, 87, 111, 114, 100, 40, 46, 100, 111, 99, 120, 41, 12289, 84, 88, 84, 40, 46, 116, 120, 116, 41>>
\* "请配置智谱开放平台API密钥（ZHIPU_API_KEY）"  (29 characters)
MSG_NO_API_KEY == <<35831, 37197, 32622, 26234, 35889, 24320, 25918, 24179, 21488, 65, 80, 73, 23494, 38053, 65288, 90, 72, 73, 80, 85, 95, 65, 80, 73, 95, 75, 69, 89, 65289>>
\* "API调用失败: "  (9 characters)
API_FAIL_PREFIX == <<65, 80, 73, 35843, 29992, 22833, 36133, 58, 32>>
\* "文档内容过短（少于50字），无法生成摘要"  (20 characters)
MSG_SUMMARY_TOO_SHORT == <<25991, 26723, 20869, 23481, 36807, 30701, 65288, 23569, 20110, 53, 48, 23383, 65289, 65292, 26080, 27861, 29983, 25104, 25688, 35201>>
\* "请总结以下文档的核心内容，要求简洁明了，不超过300字：\n    "  (33 characters)
SUMMARY_PROMPT_HEAD == <<35831, 24635, 32467, 20197, 19979, 25991, 26723, 30340, 26680, 24515, 20869, 23481, 65292, 35201, 27714, 31616, 27905, 26126, 20102, 65292, 19981, 36229, 36807, 51, 48, 48, 23383, 65306, 10, 32, 32, 32, 32>>
\* "  # 限制输入长度，避免超出模型上下文\n    "  (25 characters)
SUMMARY_PROMPT_TAIL == <<32, 32, 35, 32, 38480, 21046, 36755, 20837, 38271, 24230, 65292, 36991, 20813, 36229, 20986, 27169, 22411, 19978, 19979, 25991, 10, 32, 32, 32, 32>>
\* "文档内容过短（少于50字），无法提取关键信息"  (22 characters)
MSG_KEY_INFO_TOO_SHORT == <<25991, 26723, 20869, 23481, 36807, 30701, 65288, 23569, 20110, 53, 48, 23383, 65289, 65292, 26080, 27861, 25552, 21462, 20851, 38190, 20449, 24687>>
\* "请从以下文档中提取关键信息，包括主要观点、重要数据、核心结论等，用结构化的方式（如分点、表格）呈现：\n    "  (55 characters)
KEY_INFO_PROMPT_HEAD == <<35831, 20174, 20197, 19979, 25991, 26723, 20013, 25552, 21462, 20851, 38190, 20449, 24687, 65292, 21253, 25324, 20027, 35201, 35266, 28857, 12289, 37325, 35201, 25968, 25454, 12289, 26680, 24515, 32467, 35770, 31561, 65292, 29992, 32467, 26500, 21270, 30340, 26041, 24335, 65288, 22914, 20998, 28857, 12289, 34920, 26684, 65289, 21576, 29616, 65306, 10, 32, 32, 32, 32>>
\* "\n    "  (5 characters)
KEY_INFO_PROMPT_TAIL == <<10, 32, 32, 32, 32>>
\* "请输入问题"  (5 characters)
MSG_NO_QUESTION == <<35831, 36755, 20837, 38382, 39064>>
\* "文档内容过短（少于50字），无法回答问题"  (20 characters)
MSG_QA_TOO_SHORT == <<25991, 26723, 20869, 23481, 36807, 30701, 65288, 23569, 20110, 53, 48, 23383, 65289, 65292, 26080, 27861, 22238, 31572, 38382, 39064>>
\* "基于以下文档内容，回答问题："  (14 characters)
QA_PROMPT_HEAD == <<22522, 20110, 20197, 19979, 25991, 26723, 20869, 23481, 65292, 22238, 31572, 38382, 39064, 65306>>
\* "\n    文档内容："  (10 characters)
QA_PROMPT_MID == <<10, 32, 32, 32, 32, 25991, 26723, 20869, 23481, 65306>>
\* "\n    要求：只能根据文档内容回答，不编造信息；若文档无相关内容，需明确说明\n    "  (44 characters)
QA_PROMPT_TAIL == <<10, 32, 32, 32, 32, 35201, 27714, 65306, 21482, 33021, 26681, 25454, 25991, 26723, 20869, 23481, 22238, 31572, 65292, 19981, 32534, 36896, 20449, 24687, 65307, 33509, 25991, 26723, 26080, 30456, 20851, 20869, 23481, 65292, 38656, 26126, 30830, 35828, 26126, 10, 32, 32, 32, 32>>
\* "文本过短（少于10字），无法翻译"  (16 characters)
MSG_TRANSLATE_TOO_SHORT == <<25991, 26412, 36807, 30701, 65288, 23569, 20110, 49, 48, 23383, 65289, 65292, 26080, 27861, 32763, 35793>>
\* "中文"  (2 characters)
LANG_ZH == <<20013, 25991>>
\* "英文"  (2 characters)
LANG_EN == <<33521, 25991>>
\* "日文"  (2 characters)
LANG_JA == <<26085, 25991>>
\* "韩文"  (2 characters)
LANG_KO == <<38889, 25991>>
\* "法文"  (2 characters)
LANG_FR == <<27861, 25991>>
\* "德文"  (2 characters)
LANG_DE == <<24503, 25991>>
\* "不支持的目标语言："  (9 characters)
BAD_LANG_HEAD == <<19981, 25903, 25345, 30340, 30446, 26631, 35821, 35328, 65306>>
\* "（支持："  (4 characters)
SUPPORTED_OPEN == <<65288, 25903, 25345, 65306>>
\* "）"  (1 characters)
SUPPORTED_CLOSE == <<65289>>
\* ","  (1 characters)
COMMA == <<44>>
\* "请将以下文本翻译成"  (9 characters)
TRANSLATE_PROMPT_HEAD == <<35831, 23558, 20197, 19979, 25991, 26412, 32763, 35793, 25104>>
\* "，保持原意准确，语言流畅：\n    "  (18 characters)
TRANSLATE_PROMPT_MID == <<65292, 20445, 25345, 21407, 24847, 20934, 30830, 65292, 35821, 35328, 27969, 30021, 65306, 10, 32, 32, 32, 32>>
\* "\n    "  (5 characters)
TRANSLATE_PROMPT_TAIL == <<10, 32, 32, 32, 32>>
\* "文本过短（少于50字），无法转换格式"  (18 characters)
MSG_FORMAT_TOO_SHORT == <<25991, 26412, 36807, 30701, 65288, 23569, 20110, 53, 48, 23383, 65289, 65292, 26080, 27861, 36716, 25442, 26684, 24335>>
\* "Markdown"  (8 characters)
FMT_MARKDOWN == <<77, 97, 114, 107, 100, 111, 119, 110>>
\* "表格"  (2 characters)
FMT_TABLE == <<34920, 26684>>
\* "项目符号列表"  (6 characters)
FMT_BULLETS == <<39033, 30446, 31526, 21495, 21015, 34920>>
\* "编号列表"  (4 characters)
FMT_NUMBERED == <<32534, 21495, 21015, 34920>>
\* "不支持的目标格式："  (9 characters)
BAD_FORMAT_HEAD == <<19981, 25903, 25345, 30340, 30446, 26631, 26684, 24335, 65306>>
\* "请将以下文本转换为"  (9 characters)
FORMAT_PROMPT_HEAD == <<35831, 23558, 20197, 19979, 25991, 26412, 36716, 25442, 20026>>
\* "格式，保持内容完整和结构清晰：\n    "  (20 characters)
FORMAT_PROMPT_MID == <<26684, 24335, 65292, 20445, 25345, 20869, 23481, 23436, 25972, 21644, 32467, 26500, 28165, 26224, 65306, 10, 32, 32, 32, 32>>
\* "\n    "  (5 characters)
FORMAT_PROMPT_TAIL == <<10, 32, 32, 32, 32>>
\* "请上传文档"  (5 characters)
MSG_NO_FILE == <<35831, 19978, 20256, 25991, 26723>>

----------------------------------------------------------------------------
(* Strings of the environment: parameter values, file names, replies and   *)
(* exception messages                                                      *)

\* "俄文"  (2 characters)
LANG_RU == <<20420, 25991>>
\* "English"  (7 characters)
LANG_ENGLISH == <<69, 110, 103, 108, 105, 115, 104>>
\* "JSON"  (4 characters)
FMT_JSON == <<74, 83, 79, 78>>
\* "markdown"  (8 characters)
FMT_LOWER_MARKDOWN == <<109, 97, 114, 107, 100, 111, 119, 110>>
\* ".PDF"  (4 characters)
EXT_UPPER_PDF == <<46, 80, 68, 70>>
\* ".doc"  (4 characters)
EXT_DOC == <<46, 100, 111, 99>>
\* ".txt.bak"  (8 characters)
EXT_TXT_BAK == <<46, 116, 120, 116, 46, 98, 97, 107>>
\* "pdf"  (3 characters)
EXT_NODOT_PDF == <<112, 100, 102>>
\* "OK-123"  (6 characters)
REPLY_OK == <<79, 75, 45, 49, 50, 51>>
\* "EOF"  (3 characters)
ERR_EOF == <<69, 79, 70>>
\* "[Errno 2] No such file or directory: '/tmp/gradio/a'"  (52 characters)
ERR_NO_SUCH_FILE == <<91, 69, 114, 114, 110, 111, 32, 50, 93, 32, 78, 111, 32, 115, 117, 99, 104, 32, 102, 105, 108, 101, 32, 111, 114, 32, 100, 105, 114, 101, 99, 116, 111, 114, 121, 58, 32, 39, 47, 116, 109, 112, 47, 103, 114, 97, 100, 105, 111, 47, 97, 39>>
\* "Error code: 401"  (15 characters)
ERR_AUTH == <<69, 114, 114, 111, 114, 32, 99, 111, 100, 101, 58, 32, 52, 48, 49>>
\* "Error code: 429"  (15 characters)
ERR_RATE_LIMIT == <<69, 114, 114, 111, 114, 32, 99, 111, 100, 101, 58, 32, 52, 50, 57>>
\* "Connection error."  (17 characters)
ERR_NETWORK == <<67, 111, 110, 110, 101, 99, 116, 105, 111, 110, 32, 101, 114, 114, 111, 114, 46>>
\* "list index out of range"  (23 characters)
ERR_INDEX == <<108, 105, 115, 116, 32, 105, 110, 100, 101, 120, 32, 111, 117, 116, 32, 111, 102, 32, 114, 97, 110, 103, 101>>

----------------------------------------------------------------------------
(* Program constants                                                       *)

\* len(text) < 50 in generate_summary
MIN_LEN_SUMMARY == 50
\* len(text) < 50 in extract_key_info
MIN_LEN_KEY_INFO == 50
\* len(text) < 50 in document_qa
MIN_LEN_QA == 50
\* len(text) < 10 in translate_text
MIN_LEN_TRANSLATE == 10
\* len(text) < 50 in format_conversion
MIN_LEN_FORMAT == 50

\* text[:3000] in generate_summary
CHARS_SUMMARY == 3000
\* text[:3000] in extract_key_info
CHARS_KEY_INFO == 3000
\* text[:3000] in document_qa
CHARS_QA == 3000
\* text[:2000] in translate_text
CHARS_TRANSLATE == 2000
\* text[:3000] in format_conversion
CHARS_FORMAT == 3000

\* max_tokens=... of each task's call_model_api call
TOKENS_SUMMARY == 300
TOKENS_KEY_INFO == 500
TOKENS_QA == 500
TOKENS_TRANSLATE == 2000
TOKENS_FORMAT == 1000
\* the default of call_model_api's max_tokens parameter
DEFAULT_MAX_TOKENS == 1024

\* ZHIPU_MODEL and the temperature of the chat request
MODEL_NAME == "glm-4-flash-250414"
TEMPERATURE == "0.7"

\* supported_langs of translate_text, supported_formats of format_conversion
supported_langs == <<LANG_ZH, LANG_EN, LANG_JA, LANG_KO, LANG_FR, LANG_DE>>
supported_formats == <<FMT_MARKDOWN, FMT_TABLE, FMT_BULLETS, FMT_NUMBERED>>

----------------------------------------------------------------------------
(* Bounds of the model                                                     *)

\* text lengths run from each threshold minus MaxDelta to it plus MaxDelta
MaxDelta == 1
\* questions have at most this many characters
MaxQuestionLen == 2
\* file names before the extension have at most this many characters
MaxStemLen == 1

----------------------------------------------------------------------------
(* Python values and the outcome of a call                                 *)

Min(a, b) == IF a < b THEN a ELSE b

Str(s) == [t |-> "str", v |-> s]
None == [t |-> "NoneType", v |-> <<>>]

IsStr(x) == x.t = "str"

\* a call either returns a value or lets an exception propagate
Return(x) == [raised |-> FALSE, exc |-> <<>>, ret |-> x]
Raise(msg) == [raised |-> TRUE, exc |-> msg, ret |-> None]

\* s[:n] with the truncation left out
SliceWhole(s, n) == s

\* s[:n]
SlicePrefix(s, n) == SubSeq(s, 1, Min(n, Len(s)))

\* s.endswith(suffix)
EndsWith(s, suffix) ==
    /\ Len(suffix) <= Len(s)
    /\ SubSeq(s, Len(s) - Len(suffix) + 1, Len(s)) = suffix

\* sep.join(parts)
RECURSIVE Join(_, _)
Join(sep, parts) ==
    IF Len(parts) = 0 THEN <<>>
    ELSE IF Len(parts) = 1 THEN parts[1]
    ELSE parts[1] \o sep \o Join(sep, Tail(parts))

\* x in parts
Contains(parts, x) == \E i \in 1..Len(parts) : parts[i] = x

\* x or "" for x a str or None
OrEmpty(x) == IF x.t = "NoneType" \/ x.v = <<>> THEN <<>> ELSE x.v

----------------------------------------------------------------------------
(* Document Reader                                                         *)

\* the loop of read_pdf: text += page.extract_text() or ""
RECURSIVE ExtractPages(_)
ExtractPages(pages) ==
    IF Len(pages) = 0 THEN <<>>
    ELSE OrEmpty(pages[1]) \o ExtractPages(Tail(pages))

\* What the file system and the parsing library do with the path: fs.kind is
\* "raise" (open or parsing raises Exception(fs.msg)) or "ok" (the file's
\* pages, paragraphs and decoded text).
PdfBody(file_path, fs) ==
    IF fs.kind = "raise" THEN Raise(fs.msg)
    ELSE Return(Str(ExtractPages(fs.pages)))

read_pdf(file_path, fs) ==
    LET body == PdfBody(file_path, fs)
    IN  IF body.raised THEN Return(Str(PDF_FAIL_PREFIX \o body.exc)) ELSE body

WordBody(file_path, fs) ==
    IF fs.kind = "raise" THEN Raise(fs.msg)
    ELSE Return(Str(Join(NEWLINE, fs.paragraphs)))

\* read_word without its except clause
read_word_uncaught(file_path, fs) == WordBody(file_path, fs)

read_word(file_path, fs) ==
    LET body == WordBody(file_path, fs)
    IN  IF body.raised THEN Return(Str(WORD_FAIL_PREFIX \o body.exc)) ELSE body

TxtBody(file_path, fs) ==
    IF fs.kind = "raise" THEN Raise(fs.msg)
    ELSE Return(Str(fs.content))

read_txt(file_path, fs) ==
    LET body == TxtBody(file_path, fs)
    IN  IF body.raised THEN Return(Str(TXT_FAIL_PREFIX \o body.exc)) ELSE body

\* the outcome of a call together with the readers and gateway calls it made
Did(o, readers, gw) ==
    [raised |-> o.raised, exc |-> o.exc, ret |-> o.ret,
     readers |-> readers, gw |-> gw]

\* x in s, for x a str
HasInfix(s, x) ==
    \E k \in 0..(Len(s) - Len(x)) : SubSeq(s, k + 1, k + Len(x)) = x

\* parse_document testing  ext in file_path  instead of file_path.endswith(ext)
parse_document_infix(file_path, fs) ==
    IF file_path = <<>> THEN Did(Return(Str(MSG_EMPTY_PATH)), <<>>, <<>>)
    ELSE IF HasInfix(file_path, EXT_PDF)
         THEN Did(read_pdf(file_path, fs), <<"read_pdf">>, <<>>)
    ELSE IF HasInfix(file_path, EXT_DOCX)
         THEN Did(read_word(file_path, fs), <<"read_word">>, <<>>)
    ELSE IF HasInfix(file_path, EXT_TXT)
         THEN Did(read_txt(file_path, fs), <<"read_txt">>, <<>>)
    ELSE Did(Return(Str(MSG_UNSUPPORTED_FORMAT)), <<>>, <<>>)

parse_document(file_path, fs) ==
    IF file_path = <<>> THEN Did(Return(Str(MSG_EMPTY_PATH)), <<>>, <<>>)
    ELSE IF EndsWith(file_path, EXT_PDF)
         THEN Did(read_pdf(file_path, fs), <<"read_pdf">>, <<>>)
    ELSE IF EndsWith(file_path, EXT_DOCX)
         THEN Did(read_word(file_path, fs), <<"read_word">>, <<>>)
    ELSE IF EndsWith(file_path, EXT_TXT)
         THEN Did(read_txt(file_path, fs), <<"read_txt">>, <<>>)
    ELSE Did(Return(Str(MSG_UNSUPPORTED_FORMAT)), <<>>, <<>>)

----------------------------------------------------------------------------
(* Model Gateway                                                           *)

\* a guard that tests for the placeholder of the source instead
KeyIsPlaceholder == ZHIPU_API_KEY = "YOUR-API-KEY"

\* not ZHIPU_API_KEY
KeyMissing == ZHIPU_API_KEY = ""

\* The body of the try block: the client is built, the request is sent, and
\* the first choice's content is read.  api is what the provider does:
\* api.kind is "raise" (the request raises Exception(api.msg)) or "response"
\* (api.choices is the response's list of choices).
ChatBody(prompt, max_tokens, api) ==
    IF api.kind = "raise" THEN Raise(api.msg)
    ELSE IF Len(api.choices) = 0 THEN Raise(ERR_INDEX)
    ELSE Return(api.choices[1].message.content)

ChatRequest(prompt, max_tokens) ==
    [model |-> ZHIPU_MODEL, messages |-> <<[role |-> "user", content |-> prompt]>>,
     max_tokens |-> max_tokens, temperature |-> TEMPERATURE]

\* the outcome of the call, the clients it built and the requests it sent
Called(o, clients, requests) ==
    [raised |-> o.raised, exc |-> o.exc, ret |-> o.ret,
     clients |-> clients, requests |-> requests]

call_model_api(prompt, max_tokens, api) ==
    IF KeyMissing THEN Called(Return(Str(MSG_NO_API_KEY)), 0, <<>>)
    ELSE LET body == ChatBody(prompt, max_tokens, api)
             sent == <<ChatRequest(prompt, max_tokens)>>
         IN  IF body.raised
             THEN Called(Return(Str(API_FAIL_PREFIX \o body.exc)), 1, sent)
             ELSE Called(body, 1, sent)

----------------------------------------------------------------------------
(* Task Functions                                                          *)

\* return call_model_api(...) or ""
DelegateOrEmpty(prompt, max_tokens, api) ==
    LET g == call_model_api(prompt, max_tokens, api)
    IN  Did(Return(Str(OrEmpty(g.ret))), <<>>,
            <<[prompt |-> prompt, max_tokens |-> max_tokens, out |-> g]>>)

\* return call_model_api(prompt, max_tokens=...)
Delegate(prompt, max_tokens, api) ==
    LET g == call_model_api(prompt, max_tokens, api)
    IN  Did(g, <<>>, <<[prompt |-> prompt, max_tokens |-> max_tokens, out |-> g]>>)

\* return "<message>" before any gateway call
Reject(msg) == Did(Return(Str(msg)), <<>>, <<>>)

generate_summary(text, api) ==
    IF Len(text) < MIN_LEN_SUMMARY THEN Reject(MSG_SUMMARY_TOO_SHORT)
    ELSE Delegate(SUMMARY_PROMPT_HEAD \o SlicePrefix(text, CHARS_SUMMARY)
                      \o SUMMARY_PROMPT_TAIL,
                  TOKENS_SUMMARY, api)

extract_key_info(text, api) ==
    IF Len(text) < MIN_LEN_KEY_INFO THEN Reject(MSG_KEY_INFO_TOO_SHORT)
    ELSE Delegate(KEY_INFO_PROMPT_HEAD \o SlicePrefix(text, CHARS_KEY_INFO)
                      \o KEY_INFO_PROMPT_TAIL,
                  TOKENS_KEY_INFO, api)

document_qa(text, question, api) ==
    IF question = <<>> THEN Reject(MSG_NO_QUESTION)
    ELSE IF Len(text) < MIN_LEN_QA THEN Reject(MSG_QA_TOO_SHORT)
    ELSE Delegate(QA_PROMPT_HEAD \o question \o QA_PROMPT_MID
                      \o SlicePrefix(text, CHARS_QA) \o QA_PROMPT_TAIL,
                  TOKENS_QA, api)

\* translate_text checking the target language before the length
translate_text_lang_first(text, target_lang, api) ==
    IF ~Contains(supported_langs, target_lang)
    THEN Reject(BAD_LANG_HEAD \o target_lang \o SUPPORTED_OPEN
                    \o Join(COMMA, supported_langs) \o SUPPORTED_CLOSE)
    ELSE IF Len(text) < MIN_LEN_TRANSLATE THEN Reject(MSG_TRANSLATE_TOO_SHORT)
    ELSE Delegate(TRANSLATE_PROMPT_HEAD \o target_lang \o TRANSLATE_PROMPT_MID
                      \o SlicePrefix(text, CHARS_TRANSLATE)
                      \o TRANSLATE_PROMPT_TAIL,
                  TOKENS_TRANSLATE, api)

translate_text(text, target_lang, api) ==
    IF Len(text) < MIN_LEN_TRANSLATE THEN Reject(MSG_TRANSLATE_TOO_SHORT)
    ELSE IF ~Contains(supported_langs, target_lang)
         THEN Reject(BAD_LANG_HEAD \o target_lang \o SUPPORTED_OPEN
                         \o Join(COMMA, supported_langs) \o SUPPORTED_CLOSE)
    ELSE Delegate(TRANSLATE_PROMPT_HEAD \o target_lang \o TRANSLATE_PROMPT_MID
                      \o SlicePrefix(text, CHARS_TRANSLATE)
                      \o TRANSLATE_PROMPT_TAIL,
                  TOKENS_TRANSLATE, api)

\* format_conversion whose error message lists the languages
format_conversion_lists_langs(text, target_format, api) ==
    IF Len(text) < MIN_LEN_FORMAT THEN Reject(MSG_FORMAT_TOO_SHORT)
    ELSE IF ~Contains(supported_formats, target_format)
         THEN Reject(BAD_FORMAT_HEAD \o target_format \o SUPPORTED_OPEN
                         \o Join(COMMA, supported_langs) \o SUPPORTED_CLOSE)
    ELSE Delegate(FORMAT_PROMPT_HEAD \o target_format \o FORMAT_PROMPT_MID
                      \o SlicePrefix(text, CHARS_FORMAT) \o FORMAT_PROMPT_TAIL,
                  TOKENS_FORMAT, api)

format_conversion(text, target_format, api) ==
    IF Len(text) < MIN_LEN_FORMAT THEN Reject(MSG_FORMAT_TOO_SHORT)
    ELSE IF ~Contains(supported_formats, target_format)
         THEN Reject(BAD_FORMAT_HEAD \o target_format \o SUPPORTED_OPEN
                         \o Join(COMMA, supported_formats) \o SUPPORTED_CLOSE)
    ELSE Delegate(FORMAT_PROMPT_HEAD \o target_format \o FORMAT_PROMPT_MID
                      \o SlicePrefix(text, CHARS_FORMAT) \o FORMAT_PROMPT_TAIL,
                  TOKENS_FORMAT, api)

----------------------------------------------------------------------------
(* Gradio bindings of main()                                               *)

\* load_document(file): file is None or the uploaded file with its .name
load_document(file, fs) ==
    IF ~file.present THEN Did(Return(Str(MSG_NO_FILE)), <<>>, <<>>)
    ELSE parse_document(file.name, fs)

----------------------------------------------------------------------------
(* Inputs: texts, parameters, files and the provider's behaviour           *)

\* a text of n characters whose characters differ from place to place
Text(n) == [i \in 1..n |-> 97 + (i % 7)]

Thresholds == {MIN_LEN_TRANSLATE, MIN_LEN_SUMMARY, CHARS_TRANSLATE, CHARS_SUMMARY}
TextLens == {0} \cup {t + d : t \in Thresholds, d \in -MaxDelta..MaxDelta}
Texts == {Text(n) : n \in TextLens}

Questions == {[i \in 1..n |-> 63] : n \in 0..MaxQuestionLen}

TargetLangs ==
    {supported_langs[i] : i \in 1..Len(supported_langs)}
        \cup {LANG_RU, LANG_ENGLISH, <<>>}

TargetFormats ==
    {supported_formats[i] : i \in 1..Len(supported_formats)}
        \cup {FMT_JSON, FMT_LOWER_MARKDOWN, <<>>}

Stems == {[i \in 1..n |-> 97] : n \in 0..MaxStemLen}
Extensions ==
    {<<>>, EXT_PDF, EXT_DOCX, EXT_TXT,
     EXT_UPPER_PDF, EXT_DOC, EXT_TXT_BAK, EXT_NODOT_PDF}
Paths == {s \o e : s \in Stems, e \in Extensions}

\* what reading a file does: an exception at open or parse time, or content
FileErrors == {<<>>, ERR_EOF, ERR_NO_SUCH_FILE}
Unreadable(m) ==
    [kind |-> "raise", msg |-> m, pages |-> <<>>, paragraphs |-> <<>>,
     content |-> <<>>]
Readable(pages, paragraphs, content) ==
    [kind |-> "ok", msg |-> <<>>, pages |-> pages, paragraphs |-> paragraphs,
     content |-> content]
NoFs == Unreadable(<<>>)
FsOutcomes ==
    {Unreadable(m) : m \in FileErrors}
        \cup {Readable(<<Str(t)>>, <<t>>, t) : t \in Texts}
        \cup {Readable(<<Str(Text(30)), None, Str(<<>>), Str(Text(31))>>,
                       <<Text(30), <<>>, Text(31)>>, Text(61))}

\* the keys the configuration can hold: none, the placeholder of the source,
\* a key the provider has issued
KEY_ABSENT == ""
KEY_PLACEHOLDER == "YOUR-API-KEY"
KEY_ISSUED == "id.secret"
ApiKeys == {KEY_ABSENT, KEY_PLACEHOLDER, KEY_ISSUED}

\* what the provider does with a request
Response(choices) == [kind |-> "response", msg |-> <<>>, choices |-> choices]
Failure(m) == [kind |-> "raise", msg |-> m, choices |-> <<>>]
Choice(content) == [message |-> [content |-> content]]
NoApi == Failure(<<>>)
ApiOutcomes ==
    IF ZHIPU_API_KEY = KEY_ISSUED
    THEN {Response(<<Choice(c)>>) : c \in {Str(REPLY_OK), Str(<<>>), None}}
             \cup {Response(<<>>)}
             \cup {Failure(m) : m \in {ERR_RATE_LIMIT, ERR_NETWORK}}
    ELSE {Failure(m) : m \in {ERR_AUTH, ERR_NETWORK}}

Prompts == {<<>>, REPLY_OK}
TokenBudgets == {DEFAULT_MAX_TOKENS, TOKENS_SUMMARY}

NoFile == [present |-> FALSE, name |-> <<>>]
Upload(path) == [present |-> TRUE, name |-> path]
\* an uploaded file has a temporary path: a directory and the file's name
Uploads ==
    {NoFile} \cup {Upload(s \o e) : s \in Stems \ {<<>>}, e \in Extensions}

\* the dropdowns offer the supported values only (lines 219-231)
LangChoices == {supported_langs[i] : i \in 1..Len(supported_langs)}
FormatChoices == {supported_formats[i] : i \in 1..Len(supported_formats)}

TaskNames ==
    {"generate_summary", "extract_key_info", "document_qa", "translate_text",
     "format_conversion"}

----------------------------------------------------------------------------
(* State machine                                                           *)

\* one request: who made it, the function, its arguments, what the
\* environment did, and the outcome
Request(via, fn, text, param, path, api, fs, out) ==
    [via |-> via, fn |-> fn, text |-> text, param |-> param, path |-> path,
     api |-> api, fs |-> fs, out |-> out]

NoRequest ==
    Request("none", "idle", <<>>, <<>>, <<>>, NoApi, NoFs,
            Did(Return(None), <<>>, <<>>))

Idle == last.fn = "idle"

Init ==
    /\ ZHIPU_API_KEY \in ApiKeys
    /\ ZHIPU_MODEL = MODEL_NAME
    /\ doc_content = <<>>
    /\ result_output = Str(<<>>)
    /\ loaded = "none"
    /\ last = NoRequest

Config == <<ZHIPU_API_KEY, ZHIPU_MODEL>>
Widgets == <<doc_content, result_output, loaded>>

(* Direct calls of the functions *)

CallParseDocument ==
    \E path \in Paths, fs \in FsOutcomes :
        /\ Idle
        /\ last' = Request("call", "parse_document", <<>>, <<>>, path, NoApi, fs,
                           parse_document(path, fs))
        /\ UNCHANGED <<Config, Widgets>>

CallModelApi ==
    \E prompt \in Prompts, max_tokens \in TokenBudgets, api \in ApiOutcomes :
        /\ Idle
        /\ last' = Request("call", "call_model_api", prompt, <<>>, <<>>, api, NoFs,
                           Delegate(prompt, max_tokens, api))
        /\ UNCHANGED <<Config, Widgets>>

CallGenerateSummary ==
    \E text \in Texts, api \in ApiOutcomes :
        /\ Idle
        /\ last' = Request("call", "generate_summary", text, <<>>, <<>>, api, NoFs,
                           generate_summary(text, api))
        /\ UNCHANGED <<Config, Widgets>>

CallExtractKeyInfo ==
    \E text \in Texts, api \in ApiOutcomes :
        /\ Idle
        /\ last' = Request("call", "extract_key_info", text, <<>>, <<>>, api, NoFs,
                           extract_key_info(text, api))
        /\ UNCHANGED <<Config, Widgets>>

CallDocumentQa ==
    \E text \in Texts, question \in Questions, api \in ApiOutcomes :
        /\ Idle
        /\ last' = Request("call", "document_qa", text, question, <<>>, api, NoFs,
                           document_qa(text, question, api))
        /\ UNCHANGED <<Config, Widgets>>

CallTranslateText ==
    \E text \in Texts, target_lang \in TargetLangs, api \in ApiOutcomes :
        /\ Idle
        /\ last' = Request("call", "translate_text", text, target_lang, <<>>, api,
                           NoFs, translate_text(text, target_lang, api))
        /\ UNCHANGED <<Config, Widgets>>

CallFormatConversion ==
    \E text \in Texts, target_format \in TargetFormats, api \in ApiOutcomes :
        /\ Idle
        /\ last' = Request("call", "format_conversion", text, target_format, <<>>,
                           api, NoFs, format_conversion(text, target_format, api))
        /\ UNCHANGED <<Config, Widgets>>

\* the caller takes the answer; the next request can start
Respond ==
    /\ ~Idle
    /\ last' = NoRequest
    /\ UNCHANGED <<Config, Widgets>>

Next ==
    \/ CallParseDocument
    \/ CallModelApi
    \/ CallGenerateSummary
    \/ CallExtractKeyInfo
    \/ CallDocumentQa
    \/ CallTranslateText
    \/ CallFormatConversion
    \/ Respond

Spec == Init /\ [][Next]_vars

(* Events of the form.  Gradio runs one handler at a time, hands it the    *)
(* values of its input components and writes its return value to its       *)
(* output component; a handler that raises leaves the output as it was.    *)

\* whether the load read the file's text
ParsedOk(out, fs) == out.readers # <<>> /\ fs.kind = "ok"

LoadClick ==
    \E file \in Uploads, fs \in FsOutcomes :
        LET out == load_document(file, fs)
        IN  /\ Idle
            /\ last' = Request("ui", "load_document", <<>>, <<>>, file.name, NoApi,
                               fs, out)
            /\ doc_content' = IF out.raised THEN doc_content ELSE out.ret.v
            /\ loaded' = IF ParsedOk(out, fs) THEN "ok" ELSE "failed"
            /\ UNCHANGED <<Config, result_output>>

\* a task button bound to outputs=[doc_content]
ShowInDocument(fn, param, api, out) ==
    /\ Idle
    /\ last' = Request("ui", fn, doc_content, param, <<>>, api, NoFs, out)
    /\ doc_content' = IF out.raised THEN doc_content ELSE out.ret.v
    /\ UNCHANGED <<Config, result_output, loaded>>

\* a task button: fn's return value goes to result_output
Show(fn, param, api, out) ==
    /\ Idle
    /\ last' = Request("ui", fn, doc_content, param, <<>>, api, NoFs, out)
    /\ result_output' = IF out.raised THEN result_output ELSE out.ret
    /\ UNCHANGED <<Config, doc_content, loaded>>

SummaryClick ==
    \E api \in ApiOutcomes :
        Show("generate_summary", <<>>, api, generate_summary(doc_content, api))

KeyInfoClick ==
    \E api \in ApiOutcomes :
        Show("extract_key_info", <<>>, api, extract_key_info(doc_content, api))

QaClick ==
    \E question \in Questions, api \in ApiOutcomes :
        Show("document_qa", question, api,
             document_qa(doc_content, question, api))

TranslateClick ==
    \E target_lang \in LangChoices, api \in ApiOutcomes :
        Show("translate_text", target_lang, api,
             translate_text(doc_content, target_lang, api))

FormatClick ==
    \E target_format \in FormatChoices, api \in ApiOutcomes :
        Show("format_conversion", target_format, api,
             format_conversion(doc_content, target_format, api))

NextUI ==
    \/ LoadClick
    \/ SummaryClick
    \/ KeyInfoClick
    \/ QaClick
    \/ TranslateClick
    \/ FormatClick
    \/ Respond

SpecUI == Init /\ [][NextUI]_vars

----------------------------------------------------------------------------
(* Properties                                                              *)

\* the reading of the documentation: thresholds, budgets, allowed values
DocMinLen(fn) == IF fn = "translate_text" THEN 10 ELSE 50

DocCharBudget(fn) == IF fn = "translate_text" THEN 2000 ELSE 3000

DocTokenBudget(fn) ==
    CASE fn = "generate_summary" -> 300
      [] fn = "extract_key_info" -> 500
      [] fn = "document_qa" -> 500
      [] fn = "translate_text" -> 2000
      [] fn = "format_conversion" -> 1000

DocTooShort(fn) ==
    CASE fn = "generate_summary" -> MSG_SUMMARY_TOO_SHORT
      [] fn = "extract_key_info" -> MSG_KEY_INFO_TOO_SHORT
      [] fn = "document_qa" -> MSG_QA_TOO_SHORT
      [] fn = "translate_text" -> MSG_TRANSLATE_TOO_SHORT
      [] fn = "format_conversion" -> MSG_FORMAT_TOO_SHORT

DocAllowed(fn) ==
    IF fn = "translate_text"
    THEN {LANG_ZH, LANG_EN, LANG_JA, LANG_KO, LANG_FR, LANG_DE}
    ELSE {FMT_MARKDOWN, FMT_TABLE, FMT_BULLETS, FMT_NUMBERED}

StartsWith(s, prefix) ==
    /\ Len(prefix) <= Len(s)
    /\ \A i \in 1..Len(prefix) : s[i] = prefix[i]

HasSuffix(s, suffix) ==
    /\ Len(suffix) <= Len(s)
    /\ \A i \in 1..Len(suffix) : s[Len(s) - Len(suffix) + i] = suffix[i]

Includes(s, part) ==
    \E k \in 0..(Len(s) - Len(part)) :
        \A i \in 1..Len(part) : s[k + i] = part[i]

IsTask == last.fn \in TaskNames
IsChoiceTask == last.fn \in {"translate_text", "format_conversion"}
TextTooShort == Len(last.text) < DocMinLen(last.fn)
GatewayCalls == last.out.gw
NoGatewayCall == GatewayCalls = <<>>

\* C1 as stated: a text below the task's minimum length gets the task's
\* length message and no gateway call, whatever the other arguments are.
C1_ShortTextAlwaysLengthMessage ==
    (IsTask /\ TextTooShort) =>
        /\ last.out.ret = Str(DocTooShort(last.fn))
        /\ NoGatewayCall

\* C1 amended: a text below the task's minimum length gets the task's length
\* message, for document_qa provided the question is not empty; with an empty
\* question document_qa answers "please enter a question" instead.  In every
\* one of these cases the gateway is not called.
C1_ShortTextRejected ==
    (IsTask /\ TextTooShort) =>
        /\ ~last.out.raised
        /\ NoGatewayCall
        /\ last.out.ret =
               IF last.fn = "document_qa" /\ last.param = <<>>
               THEN Str(MSG_NO_QUESTION)
               ELSE Str(DocTooShort(last.fn))

C1_Witness ==
    /\ last.fn = "translate_text"
    /\ Len(last.text) = 9
    /\ last.param = LANG_RU
    /\ last.out.ret = Str(MSG_TRANSLATE_TOO_SHORT)

\* C2 as stated: a target language or format outside the allowed values gets
\* an error message that lists every supported value and no gateway call,
\* for every text.
C2_BadChoiceAlwaysListsValues ==
    (IsChoiceTask /\ last.param \notin DocAllowed(last.fn)) =>
        /\ IsStr(last.out.ret)
        /\ \A v \in DocAllowed(last.fn) : Includes(last.out.ret.v, v)
        /\ NoGatewayCall

\* C2 amended: a target language or format outside the allowed values never
\* reaches the gateway; when the text has the task's minimum length the
\* answer names the rejected value and lists every supported value, and when
\* the text is shorter the answer is the task's length message.
C2_BadChoiceRejected ==
    (IsChoiceTask /\ last.param \notin DocAllowed(last.fn)) =>
        /\ ~last.out.raised
        /\ NoGatewayCall
        /\ IsStr(last.out.ret)
        /\ IF TextTooShort
           THEN last.out.ret.v = DocTooShort(last.fn)
           ELSE /\ \A v \in DocAllowed(last.fn) : Includes(last.out.ret.v, v)
                /\ Includes(last.out.ret.v, last.param)

C2_Witness ==
    /\ last.fn = "format_conversion"
    /\ Len(last.text) = 50
    /\ last.param = FMT_LOWER_MARKDOWN
    /\ Includes(last.out.ret.v, FMT_NUMBERED)

\* the preconditions of a task, as documented
ValidInputs ==
    /\ IsTask
    /\ ~TextTooShort
    /\ last.fn = "document_qa" => last.param # <<>>
    /\ IsChoiceTask => last.param \in DocAllowed(last.fn)

\* C3: with valid inputs a task calls the gateway exactly once, with the
\* task's token budget, and returns what the gateway returned.
C3_ValidInputsPassThrough ==
    ValidInputs =>
        /\ Len(GatewayCalls) = 1
        /\ GatewayCalls[1].max_tokens = DocTokenBudget(last.fn)
        /\ last.out.ret = GatewayCalls[1].out.ret
        /\ last.out.raised = GatewayCalls[1].out.raised

C3_Witness ==
    /\ last.fn = "generate_summary"
    /\ Len(last.text) = 50
    /\ Len(GatewayCalls) = 1
    /\ last.out.ret = Str(REPLY_OK)

\* the literal text of each task's prompt, before and after the document text
PromptLead(fn) ==
    CASE fn = "generate_summary" -> <<SUMMARY_PROMPT_HEAD, <<>>>>
      [] fn = "extract_key_info" -> <<KEY_INFO_PROMPT_HEAD, <<>>>>
      [] fn = "document_qa" -> <<QA_PROMPT_HEAD, QA_PROMPT_MID>>
      [] fn = "translate_text" -> <<TRANSLATE_PROMPT_HEAD, TRANSLATE_PROMPT_MID>>
      [] fn = "format_conversion" -> <<FORMAT_PROMPT_HEAD, FORMAT_PROMPT_MID>>

PromptTail(fn) ==
    CASE fn = "generate_summary" -> SUMMARY_PROMPT_TAIL
      [] fn = "extract_key_info" -> KEY_INFO_PROMPT_TAIL
      [] fn = "document_qa" -> QA_PROMPT_TAIL
      [] fn = "translate_text" -> TRANSLATE_PROMPT_TAIL
      [] fn = "format_conversion" -> FORMAT_PROMPT_TAIL

InstructionLen(fn) ==
    Len(PromptLead(fn)[1]) + Len(PromptLead(fn)[2]) + Len(PromptTail(fn))

\* the longest value an allowed choice can add to the instruction
RECURSIVE MaxLen(_)
MaxLen(S) ==
    IF S = {} THEN 0
    ELSE LET x == CHOOSE y \in S : TRUE
             m == MaxLen(S \ {x})
         IN  IF Len(x) > m THEN Len(x) ELSE m

FixedInstructionLen(fn) ==
    InstructionLen(fn)
        + (IF fn \in {"translate_text", "format_conversion"}
           THEN MaxLen(DocAllowed(fn)) ELSE 0)

\* the document text is embedded from this offset of the prompt
TextOffset(fn, param) ==
    Len(PromptLead(fn)[1]) + Len(param) + Len(PromptLead(fn)[2])

EmbedsFirstChars(call) ==
    LET n == Min(Len(last.text), DocCharBudget(last.fn))
        off == TextOffset(last.fn, last.param)
    IN  /\ Len(call.prompt) = InstructionLen(last.fn) + Len(last.param) + n
        /\ \A i \in 1..n : call.prompt[off + i] = last.text[i]
        /\ HasSuffix(call.prompt, PromptTail(last.fn))

\* C4 as stated: the prompt is never longer than the character budget plus
\* the task's fixed instruction text, whatever the other arguments are.
C4_PromptWithinBudgetPlusInstruction ==
    IsTask =>
        \A k \in 1..Len(GatewayCalls) :
            Len(GatewayCalls[k].prompt)
                <= DocCharBudget(last.fn) + FixedInstructionLen(last.fn)

\* C4 amended: the prompt embeds only the first N characters of the text,
\* and its length is the length of the literal instruction text plus the
\* length of the embedded question, target language or target format plus
\* min(len(text), N); so it never exceeds N plus the instruction text plus
\* the length of that argument.
C4_PromptEmbedsTruncatedText ==
    IsTask =>
        \A k \in 1..Len(GatewayCalls) :
            /\ EmbedsFirstChars(GatewayCalls[k])
            /\ Len(GatewayCalls[k].prompt)
                   <= DocCharBudget(last.fn) + InstructionLen(last.fn)
                          + Len(last.param)

C4_Witness ==
    /\ last.fn = "document_qa"
    /\ Len(last.text) > 3000
    /\ Len(last.param) = 1
    /\ Len(GatewayCalls) = 1
    /\ Len(GatewayCalls[1].prompt) = 3000 + InstructionLen("document_qa") + 1

\* the extensions the documentation names as supported
DocSupported(path) ==
    \E e \in {EXT_PDF, EXT_DOCX, EXT_TXT} : HasSuffix(path, e)

IsParse == last.fn = "parse_document"

\* C5 as stated: every path without a supported extension, the empty path
\* included, gets the unsupported-format message; no reader is called and
\* nothing is raised.
C5_UnsupportedAlwaysFixedMessage ==
    (IsParse /\ ~DocSupported(last.path)) =>
        /\ last.out.ret = Str(MSG_UNSUPPORTED_FORMAT)
        /\ last.out.readers = <<>>
        /\ ~last.out.raised

\* C5 amended: every non-empty path without a supported extension gets the
\* unsupported-format message; the empty path gets the empty-path message;
\* in both cases no reader is called and nothing is raised.
C5_UnsupportedRejected ==
    (IsParse /\ ~DocSupported(last.path)) =>
        /\ last.out.ret =
               IF last.path = <<>> THEN Str(MSG_EMPTY_PATH)
               ELSE Str(MSG_UNSUPPORTED_FORMAT)
        /\ last.out.readers = <<>>
        /\ ~last.out.raised

C5_Witness ==
    /\ IsParse
    /\ last.path = <<97>> \o EXT_TXT_BAK
    /\ last.fs.kind = "ok"
    /\ last.out.ret = Str(MSG_UNSUPPORTED_FORMAT)

\* the reader and the failure prefix that go with a supported extension
DocReader(path) ==
    IF HasSuffix(path, EXT_PDF) THEN <<"read_pdf", PDF_FAIL_PREFIX>>
    ELSE IF HasSuffix(path, EXT_DOCX) THEN <<"read_word", WORD_FAIL_PREFIX>>
    ELSE <<"read_txt", TXT_FAIL_PREFIX>>

\* C6: parse_document never raises and always returns a string; for a path
\* with a supported extension an exception while opening or parsing the file
\* becomes the return value "<FormatName> read failed: <message>" of the
\* reader of that extension.
C6_ReaderNeverRaises ==
    IsParse =>
        /\ ~last.out.raised
        /\ IsStr(last.out.ret)
        /\ (DocSupported(last.path) /\ last.fs.kind = "raise") =>
               /\ last.out.readers = <<DocReader(last.path)[1]>>
               /\ last.out.ret.v = DocReader(last.path)[2] \o last.fs.msg

C6_Witness ==
    /\ IsParse
    /\ last.path = <<97>> \o EXT_DOCX
    /\ last.fs.kind = "raise"
    /\ last.out.ret = Str(WORD_FAIL_PREFIX \o ERR_EOF)

\* C7 as stated: without a usable key (none, or one that is not valid) every
\* gateway call returns the configuration message; without any key no client
\* is built and no request is sent.
C7_UnusableKeyConfigurationError ==
    ZHIPU_API_KEY # KEY_ISSUED =>
        \A k \in 1..Len(GatewayCalls) :
            /\ GatewayCalls[k].out.ret = Str(MSG_NO_API_KEY)
            /\ ZHIPU_API_KEY = KEY_ABSENT =>
                   /\ GatewayCalls[k].out.clients = 0
                   /\ GatewayCalls[k].out.requests = <<>>

\* C7 amended: without any key every gateway call returns the configuration
\* message, builds no client and sends no request.  A key that is present
\* but not valid is not detected: the client is built, one request is sent,
\* and the provider's failure is returned as "API call failed: <message>".
C7_MissingKeyConfigurationError ==
    \A k \in 1..Len(GatewayCalls) :
        /\ ZHIPU_API_KEY = KEY_ABSENT =>
               /\ GatewayCalls[k].out.ret = Str(MSG_NO_API_KEY)
               /\ GatewayCalls[k].out.clients = 0
               /\ GatewayCalls[k].out.requests = <<>>
        /\ ZHIPU_API_KEY = KEY_PLACEHOLDER =>
               /\ GatewayCalls[k].out.clients = 1
               /\ Len(GatewayCalls[k].out.requests) = 1
               /\ IsStr(GatewayCalls[k].out.ret)
               /\ StartsWith(GatewayCalls[k].out.ret.v, API_FAIL_PREFIX)

C7_Witness ==
    /\ ZHIPU_API_KEY = KEY_ABSENT
    /\ last.fn = "call_model_api"
    /\ Len(GatewayCalls) = 1
    /\ GatewayCalls[1].out.ret = Str(MSG_NO_API_KEY)

\* a failure of the model call: the request raises, or the response has no
\* choices, or the first choice has no content
ApiFailed(api) ==
    \/ api.kind = "raise"
    \/ api.choices = <<>>
    \/ api.choices[1].message.content = None

\* C8: every gateway call returns a string, raises nothing and sends at most
\* one request; when the model call fails the string starts with
\* "API call failed: ".
C8_ApiFailureBecomesString ==
    \A k \in 1..Len(GatewayCalls) :
        /\ ~GatewayCalls[k].out.raised
        /\ Len(GatewayCalls[k].out.requests) <= 1
        /\ IsStr(GatewayCalls[k].out.ret)
        /\ (ZHIPU_API_KEY # KEY_ABSENT /\ ApiFailed(last.api)) =>
               StartsWith(GatewayCalls[k].out.ret.v, API_FAIL_PREFIX)

\* what the task fn returns for these inputs
TaskOutcome(fn, text, param, api) ==
    CASE fn = "generate_summary" -> generate_summary(text, api)
      [] fn = "extract_key_info" -> extract_key_info(text, api)
      [] fn = "document_qa" -> document_qa(text, param, api)
      [] fn = "translate_text" -> translate_text(text, param, api)
      [] fn = "format_conversion" -> format_conversion(text, param, api)

\* C9: a task click leaves the document text and the configuration as they
\* were and writes the result display, with a value that depends only on the
\* document text, the click's inputs and the gateway's answer; a load click
\* writes the document text and leaves the result display and the
\* configuration as they were.
C9_Step ==
    /\ (Idle /\ last'.fn \in TaskNames) =>
           /\ doc_content' = doc_content
           /\ Config' = Config
           /\ result_output' =
                  TaskOutcome(last'.fn, doc_content, last'.param, last'.api).ret
    /\ (Idle /\ last'.fn = "load_document") =>
           /\ result_output' = result_output
           /\ Config' = Config
           /\ doc_content' = last'.out.ret.v
    /\ ~Idle => <<Config, doc_content, result_output>>' =
                    <<Config, doc_content, result_output>>

C9_FrameEffects == [][C9_Step]_vars

C9_Witness ==
    /\ last.via = "ui"
    /\ last.fn = "translate_text"
    /\ Len(doc_content) > 2000
    /\ result_output = Str(REPLY_OK)

\* C10: in the form, a task click reaches the gateway only when the document
\* text comes from a load that read the file's text.
C10_GatewayOnlyAfterSuccessfulParse ==
    (last.via = "ui" /\ IsTask /\ loaded # "ok") => NoGatewayCall

====
